---- MODULE Spec2Model ----
(***************************************************************************)
(* Model of the timeline visualisation toolkit: utils.py (timestamp        *)
(* normalisation, great-circle distance), parser.py (TimelineParser),      *)
(* trajectory.py (TrajectoryBuilder, build_trajectory) and cli.py (main).  *)
(*                                                                         *)
(* Representation of Python values:                                        *)
(*  - an optional value is a sequence: <<>> is None / NaN / NaT, <<v>> is  *)
(*    the value v;                                                         *)
(*  - a float is a fixed-point integer with FloatScale units per 1.0;      *)
(*  - a timestamp is an integer number of ticks since midnight of the day  *)
(*    of the data (pandas resample origin "start_day" is tick 0);          *)
(*  - a coordinate is expressed in metres of arc near latitude 0, where    *)
(*    the haversine formula reduces to the planar distance; the grid of    *)
(*    locations is chosen so that every distance is an exact integer.      *)
(***************************************************************************)
EXTENDS Integers, Sequences, FiniteSets, TLC

VARIABLES
    pc,                 \* the control point of the run
    input_exists,       \* whether the input path exists
    doc,                \* the decoded document: the sequence of its entries
    max_accuracy,       \* TimelineParser.max_accuracy (optional float)
    dedup_tolerance_m,  \* TimelineParser.dedup_tolerance_m (float)
    resample_freq,      \* --resample / resample_freq (optional, in ticks)
    smoothing_window,   \* --smooth-window / smoothing_window
    n,                  \* number of entries _collect_points has consumed
    points,             \* the candidate points yielded so far
    df,                 \* the table the current stage works on
    prev,               \* the table the last stage received
    kept,               \* the indices of prev that _deduplicate kept
    extracted,          \* per entry consumed: its timestamp and its points
    stages,             \* the stages main has invoked, in order
    frames,             \* number of frame images written
    video,              \* whether the video file was written
    parsed,             \* <<t>> once parse_timeline returned table t to main
    built_from,         \* <<t>> once build_trajectory was called with table t
    exc                 \* the exception that ended the run, or "none"

vars == <<pc, input_exists, doc, max_accuracy, dedup_tolerance_m,
          resample_freq, smoothing_window, n, points, df, prev, kept,
          extracted, stages, frames, video, parsed, built_from, exc>>

(***************************************************************************)
(* Bounds of the model.                                                    *)
(***************************************************************************)
MaxEntries == 2
MaxPoints == 4
MaxRows == 3
MaxTime == 5
MaxWindow == 3

(***************************************************************************)
(* Values.                                                                 *)
(***************************************************************************)
None == <<>>
Some(v) == <<v>>
IsNone(o) == o = <<>>
Val(o) == o[1]

RECURSIVE Fact(_)
Fact(k) == IF k <= 1 THEN 1 ELSE k * Fact(k - 1)

\* Units per 1.0 of a modelled float: every mean of at most MaxWindow
\* integers is exact.
FloatScale == Fact(MaxWindow)
F(x) == x * FloatScale

Abs(x) == IF x < 0 THEN -x ELSE x

(***************************************************************************)
(* utils.py                                                                *)
(***************************************************************************)
\* Squared planar distance; haversine_distance is its square root.
DistSq(lat1, lon1, lat2, lon2) ==
    (lat2 - lat1) * (lat2 - lat1) + (lon2 - lon1) * (lon2 - lon1)

haversine_distance(lat1, lon1, lat2, lon2) ==
    LET s == DistSq(lat1, lon1, lat2, lon2)
        m == Abs(lat2 - lat1) + Abs(lon2 - lon1)
    IN  CHOOSE r \in 0..m : r * r <= s /\ (r + 1) * (r + 1) > s

(***************************************************************************)
(* Rows of a table (a pandas DataFrame is a sequence of rows).             *)
(***************************************************************************)
Row(t, lat, lon, acc, spd) ==
    [timestamp |-> t, latitude |-> lat, longitude |-> lon,
     accuracy |-> acc, speed |-> spd]

\* The tolerances tried: 0, the default 5.0, and two that equal a distance
\* of the grid.
DEFAULT_TOLERANCE == 5
Tolerances == {F(0), F(DEFAULT_TOLERANCE), F(8), F(10)}

\* Locations: the corners of a 6 m x 8 m rectangle (diagonal 10 m).
GridLat == {F(0), F(6)}
GridLon == {F(0), F(8)}

(***************************************************************************)
(* TimelineParser._deduplicate: the indices of the rows kept.              *)
(***************************************************************************)
DedupDropsStrict(last, row, tol) ==
    haversine_distance(Val(last.latitude), Val(last.longitude),
                       Val(row.latitude), Val(row.longitude)) <= tol

\* _deduplicate, line 139: the row is skipped.
DedupDrops(last, row, tol) ==
    haversine_distance(Val(last.latitude), Val(last.longitude),
                       Val(row.latitude), Val(row.longitude)) < tol

RECURSIVE DedupFrom(_, _, _, _)
DedupFrom(table, tol, rows, j) ==
    IF j > Len(table) THEN rows
    ELSE IF DedupDrops(table[rows[Len(rows)]], table[j], tol)
         THEN DedupFrom(table, tol, rows, j + 1)
         ELSE DedupFrom(table, tol, Append(rows, j), j + 1)

DedupKept(table, tol) ==
    IF table = <<>> THEN <<>> ELSE DedupFrom(table, tol, <<1>>, 2)

Take(table, idx) == [k \in 1..Len(idx) |-> table[idx[k]]]

_deduplicate(table, tol) == Take(table, DedupKept(table, tol))


(***************************************************************************)
(* Raw JSON values of a decoded document.  tag: "absent" (key missing or   *)
(* null), "num" (a number), "digits" (a string of digits), "iso" (an       *)
(* ISO-8601 string), "badstr" (a non-empty string that is neither), "obj"  *)
(* (a non-empty map).  v is the number, or the instant a string denotes.   *)
(***************************************************************************)
Absent == [tag |-> "absent", v |-> 0]
Num(v) == [tag |-> "num", v |-> v]
Digits(v) == [tag |-> "digits", v |-> v]
Iso(v) == [tag |-> "iso", v |-> v]
BadStr == [tag |-> "badstr", v |-> 0]
Obj == [tag |-> "obj", v |-> 0]

\* Python truthiness of a raw value (the operand of "or").
Truthy(raw) ==
    CASE raw.tag = "absent" -> FALSE
      [] raw.tag = "num" -> raw.v # 0
      [] OTHER -> TRUE

\* a or b or c: the first truthy operand, else the last one.
RECURSIVE OrChain(_)
OrChain(raws) ==
    IF Len(raws) = 1 \/ Truthy(Head(raws)) THEN Head(raws)
    ELSE OrChain(Tail(raws))

\* A result of to_timestamp: a pandas Timestamp, NaT, or Python None.
Ts(t) == [k |-> "ts", t |-> t]
NaT == [k |-> "nat", t |-> 0]
NoTs == [k |-> "none", t |-> 0]

\* utils.to_timestamp: numbers and digit strings are epoch milliseconds;
\* any other string goes through to_datetime(errors="coerce"), which gives
\* NaT (not None) when it cannot be parsed; other types give None.
to_timestamp(value) ==
    CASE value.tag = "absent" -> NoTs
      [] value.tag = "num" -> Ts(value.v)
      [] value.tag = "digits" -> Ts(value.v)
      [] value.tag = "iso" -> Ts(value.v)
      [] value.tag = "badstr" -> NaT
      [] OTHER -> NoTs

\* "x or y" and "if not x" on a to_timestamp result: NaT is an object
\* without __bool__, hence truthy; only None is falsy.
TsTruthy(ts) == ts.k # "none"

\* The timestamp column of a row: <<t>>, or <<>> for NaT.
TsOpt(ts) == IF ts.k = "ts" THEN Some(ts.t) ELSE None

E7_FACTOR == 10000000

\* float(x) / E7_FACTOR
DecodeE7(v) == (F(v)) \div E7_FACTOR

(***************************************************************************)
(* A payload is what _extract_point reads of a map.  shape names the keys  *)
(* that carry the position: "position_point" (position.point.latE7/lngE7), *)
(* "position" (position.latE7/lngE7), "point" (point.latE7/lngE7),         *)
(* "latitudeE7" (latitudeE7/longitudeE7), "latE7" (latE7/lngE7), "none".   *)
(***************************************************************************)
Payload(shape, lat, lng, acc, ts) ==
    [shape |-> shape, lat |-> lat, lng |-> lng, accuracy |-> acc,
     verticalAccuracy |-> Absent, hAccuracy |-> Absent, speed |-> Absent,
     timestamp |-> ts]

NoPoint == [r |-> "none", row |-> Row(None, None, None, None, None)]
Raised == [r |-> "raise", row |-> Row(None, None, None, None, None)]
Point(row) == [r |-> "point", row |-> row]

\* float(x) raises ValueError on a non-numeric string.
FloatRaises(raw) == raw.tag \in {"badstr", "iso", "obj"}
FloatOpt(raw) == IF raw.tag = "absent" THEN None ELSE Some(F(raw.v))

\* TimelineParser._extract_point
_extract_point(payload, timestamp) ==
    IF payload.shape = "none" THEN NoPoint
    ELSE IF payload.lat.tag = "absent" \/ payload.lng.tag = "absent" THEN NoPoint
    ELSE IF FloatRaises(payload.lat) \/ FloatRaises(payload.lng) THEN Raised
    ELSE LET accuracy == OrChain(<<payload.accuracy, payload.verticalAccuracy,
                                   payload.hAccuracy>>)
             own == to_timestamp(payload.timestamp)
             parsed_timestamp == IF TsTruthy(own) THEN own ELSE timestamp
         IN  IF parsed_timestamp.k = "none" THEN NoPoint
             ELSE IF FloatRaises(accuracy) \/ FloatRaises(payload.speed)
                  THEN Raised
                  ELSE Point(Row(TsOpt(parsed_timestamp),
                                 Some(DecodeE7(payload.lat.v)),
                                 Some(DecodeE7(payload.lng.v)),
                                 FloatOpt(accuracy),
                                 FloatOpt(payload.speed)))


(***************************************************************************)
(* An entry of timelineEdits / timelineObjects / locations.  isDict is     *)
(* FALSE for an entry that is not a key/value map.  The position keys of   *)
(* the entry itself are its payload fields; signals is rawSignal.signal;   *)
(* segment is activitySegment, whose locations are sequences of at most    *)
(* one payload, and whose duration.startTimestamp / endTimestamp are       *)
(* durationStart / durationEnd.                                            *)
(***************************************************************************)
NoSegment ==
    [startLocation |-> <<>>, endLocation |-> <<>>,
     startLocationTimestamp |-> Absent, endLocationTimestamp |-> Absent,
     durationStart |-> Absent, durationEnd |-> Absent]

Entry0 ==
    [isDict |-> TRUE, timestamp |-> Absent, timestampMs |-> Absent,
     eventTime |-> Absent, startTimestamp |-> Absent,
     startTimestampMs |-> Absent,
     shape |-> "none", lat |-> Absent, lng |-> Absent, accuracy |-> Absent,
     verticalAccuracy |-> Absent, hAccuracy |-> Absent, speed |-> Absent,
     hasRawSignal |-> FALSE, signals |-> <<>>,
     hasSegment |-> FALSE, segment |-> NoSegment]

EntryPayload(entry) ==
    [shape |-> entry.shape, lat |-> entry.lat, lng |-> entry.lng,
     accuracy |-> entry.accuracy, verticalAccuracy |-> entry.verticalAccuracy,
     hAccuracy |-> entry.hAccuracy, speed |-> entry.speed,
     timestamp |-> entry.timestamp]

\* The fallback of _extract_timestamp: the keys startTimestamp and
\* startTimestampMs of the entry itself, in this order.
RECURSIVE FallbackTimestamp(_)
FallbackTimestamp(raws) ==
    IF raws = <<>> THEN NoTs
    ELSE IF Head(raws).tag # "absent" /\ to_timestamp(Head(raws)).k # "none"
         THEN to_timestamp(Head(raws))
         ELSE FallbackTimestamp(Tail(raws))

\* TimelineParser._extract_timestamp
_extract_timestamp(entry) ==
    LET ts == OrChain(<<entry.timestamp, entry.timestampMs, entry.eventTime>>)
        ts_obj == to_timestamp(ts)
    IN  IF ts_obj.k # "none" THEN ts_obj
        ELSE FallbackTimestamp(<<entry.startTimestamp, entry.startTimestampMs>>)

\* The calls of _extract_point that _extract_from_entry makes, in order:
\* the raw signals, the entry itself, the segment's two locations.
SegmentCalls(segment, timestamp) ==
    LET st == to_timestamp(segment.startLocationTimestamp)
        et == to_timestamp(segment.endLocationTimestamp)
    IN  [k \in 1..Len(segment.startLocation) |->
            <<segment.startLocation[k], IF TsTruthy(st) THEN st ELSE timestamp>>]
        \o
        [k \in 1..Len(segment.endLocation) |->
            <<segment.endLocation[k], IF TsTruthy(et) THEN et ELSE timestamp>>]

ExtractCalls(entry, timestamp) ==
    (IF entry.hasRawSignal
     THEN [k \in 1..Len(entry.signals) |-> <<entry.signals[k], timestamp>>]
     ELSE <<>>)
    \o <<<<EntryPayload(entry), timestamp>>>>
    \o (IF entry.hasSegment THEN SegmentCalls(entry.segment, timestamp)
        ELSE <<>>)

\* The points yielded by the calls, until one raises.
RECURSIVE YieldPoints(_, _)
YieldPoints(calls, acc) ==
    IF calls = <<>> THEN [points |-> acc, raised |-> FALSE]
    ELSE LET res == _extract_point(Head(calls)[1], Head(calls)[2])
         IN  CASE res.r = "raise" -> [points |-> acc, raised |-> TRUE]
               [] res.r = "point" -> YieldPoints(Tail(calls), Append(acc, res.row))
               [] OTHER -> YieldPoints(Tail(calls), acc)

\* TimelineParser._extract_from_entry: entry.get on an entry that is not a
\* map raises AttributeError.
_extract_from_entry(entry) ==
    IF ~entry.isDict THEN [points |-> <<>>, raised |-> TRUE, ts |-> NoTs]
    ELSE LET timestamp == _extract_timestamp(entry)
         IN  IF ~TsTruthy(timestamp)
             THEN [points |-> <<>>, raised |-> FALSE, ts |-> timestamp]
             ELSE LET y == YieldPoints(ExtractCalls(entry, timestamp), <<>>)
                  IN  [points |-> y.points, raised |-> y.raised, ts |-> timestamp]


(***************************************************************************)
(* The entries documents are made of.                                      *)
(***************************************************************************)
E7(k) == k * E7_FACTOR

\* A flat location record: latitudeE7 / longitudeE7 on the entry itself.
Flat(loc, acc) ==
    [Entry0 EXCEPT !.shape = "latitudeE7", !.lat = Num(E7(loc[1])),
                   !.lng = Num(E7(loc[2])), !.accuracy = acc]

LocPayload(loc) ==
    Payload("latitudeE7", Num(E7(loc[1])), Num(E7(loc[2])), Absent, Absent)

LocA == <<0, 0>>
LocB == <<6, 8>>
LocC == <<6, 0>>

Segment(t1, t2) ==
    [NoSegment EXCEPT !.startLocation = <<LocPayload(LocA)>>,
                      !.endLocation = <<LocPayload(LocB)>>,
                      !.durationStart = t1, !.durationEnd = t2]

WellFormedPool ==
    { [Flat(LocA, Absent) EXCEPT !.timestamp = Num(1)],
      [Flat(LocB, Num(5)) EXCEPT !.timestamp = Iso(2)],
      [Flat(LocA, Num(20)) EXCEPT !.timestamp = Num(2)],
      [Flat(LocC, Num(10)) EXCEPT !.timestamp = Iso(4)],
      [Flat(LocC, Absent) EXCEPT !.timestampMs = Digits(1)],
      [Flat(LocB, Absent) EXCEPT !.eventTime = Iso(3)],
      [Flat(LocC, Absent) EXCEPT !.startTimestamp = Iso(4)],
      [Flat(LocB, Num(0)) EXCEPT !.timestamp = Num(5),
                                 !.verticalAccuracy = Num(20)],
      \* an edit with two raw signals, the second with its own timestamp
      [Entry0 EXCEPT !.timestamp = Num(1), !.hasRawSignal = TRUE,
          !.signals = <<Payload("position_point", Num(E7(0)), Num(E7(0)),
                                Num(5), Absent),
                        Payload("latE7", Num(E7(6)), Num(E7(8)),
                                Absent, Iso(4))>>],
      \* an activity segment under an entry that has a timestamp of its own
      [Entry0 EXCEPT !.timestamp = Iso(2), !.hasSegment = TRUE,
                     !.segment = Segment(Iso(2), Iso(3))] }

\* A timeline object whose only content is an activity segment.
SegmentOnlyPool ==
    { [Entry0 EXCEPT !.hasSegment = TRUE, !.segment = Segment(Iso(1), Iso(4))] }

\* Entries whose first timestamp field is present but does not resolve.
ShadowedPool ==
    { [Flat(LocB, Absent) EXCEPT !.timestamp = BadStr, !.timestampMs = Digits(2)],
      [Flat(LocB, Absent) EXCEPT !.timestamp = Obj, !.eventTime = Iso(2)],
      [Flat(LocC, Absent) EXCEPT !.timestamp = Obj, !.startTimestamp = Iso(3)] }

\* Malformed records: unparseable or missing timestamp, missing coordinate
\* fields, non-numeric accuracy or speed, an entry that is not a map.
MalformedPool ==
    { [Flat(LocA, Absent) EXCEPT !.timestamp = BadStr],
      Flat(LocA, Absent),
      [Entry0 EXCEPT !.timestamp = Num(1)],
      [Flat(LocA, Absent) EXCEPT !.timestamp = Num(1), !.lat = Absent],
      [Flat(LocB, BadStr) EXCEPT !.timestamp = Num(2)],
      [Flat(LocB, Absent) EXCEPT !.timestamp = Num(2), !.speed = BadStr],
      [Entry0 EXCEPT !.isDict = FALSE] }

\* A record whose coordinate is a non-numeric string.
BadCoordPool ==
    { [Flat(LocA, Absent) EXCEPT !.timestamp = Num(4), !.lat = BadStr] }

Pool == WellFormedPool \cup SegmentOnlyPool \cup ShadowedPool
        \cup MalformedPool \cup BadCoordPool

Docs == UNION {[1..k -> Pool] : k \in 0..MaxEntries}

(***************************************************************************)
(* Table operations of pandas used by TimelineParser.parse.                *)
(***************************************************************************)
\* df.dropna(subset=["timestamp", "latitude", "longitude"])
DropNaKeeps(row) ==
    ~IsNone(row.timestamp) /\ ~IsNone(row.latitude) /\ ~IsNone(row.longitude)

dropna(table) == SelectSeq(table, DropNaKeeps)

\* The orders in which the rows idx of table are ascending by timestamp.
\* sort_values uses the default kind (quicksort), which is not stable:
\* rows with equal timestamps may come out in any order.
RECURSIVE AscendingOrders(_, _)
AscendingOrders(table, idx) ==
    IF idx = {} THEN {<<>>}
    ELSE LET least == {i \in idx : \A j \in idx :
                          Val(table[i].timestamp) <= Val(table[j].timestamp)}
         IN  UNION {{<<i>> \o rest : rest \in AscendingOrders(table, idx \ {i})}
                    : i \in least}

SortOrders(table) == AscendingOrders(table, 1..Len(table))

\* df.sort_values("timestamp").reset_index(drop=True): the possible results.
sort_values(table) == {Take(table, o) : o \in SortOrders(table)}

\* df["accuracy"].fillna(max_accuracy) <= max_accuracy, for one row.
AccuracyKeepsStrict(row, maxacc) ==
    (IF IsNone(row.accuracy) THEN Val(maxacc) ELSE Val(row.accuracy)) < Val(maxacc)

AccuracyKeeps(row, maxacc) ==
    (IF IsNone(row.accuracy) THEN Val(maxacc) ELSE Val(row.accuracy)) <= Val(maxacc)

RECURSIVE FilterAccuracy(_, _)
FilterAccuracy(table, maxacc) ==
    IF table = <<>> THEN <<>>
    ELSE (IF AccuracyKeeps(Head(table), maxacc) THEN <<Head(table)>> ELSE <<>>)
         \o FilterAccuracy(Tail(table), maxacc)


(***************************************************************************)
(* TimelineParser.parse, one action per statement.                         *)
(***************************************************************************)
cfgVars == <<input_exists, doc, max_accuracy, dedup_tolerance_m,
             resample_freq, smoothing_window>>
outVars == <<stages, frames, video, parsed, built_from>>

\* parse, lines 19-20: load_json_file raises when the path does not exist.
LoadJson ==
    /\ pc = "load"
    /\ IF input_exists
       THEN pc' = "collect" /\ exc' = exc
       ELSE pc' = "raised" /\ exc' = "FileNotFoundError"
    /\ UNCHANGED <<cfgVars, outVars, n, points, df, prev, kept, extracted>>

\* parse, line 21: list(_collect_points(raw)) consumes the next entry.
CollectEntry ==
    /\ pc = "collect"
    /\ n < Len(doc)
    /\ LET res == _extract_from_entry(doc[n + 1])
       IN  IF res.raised
           THEN /\ pc' = "raised"
                /\ exc' = IF doc[n + 1].isDict THEN "ValueError"
                          ELSE "AttributeError"
                /\ UNCHANGED <<n, points, extracted>>
           ELSE /\ n' = n + 1
                /\ points' = points \o res.points
                /\ extracted' = Append(extracted, [ts |-> res.ts, points |-> res.points])
                /\ UNCHANGED <<pc, exc>>
    /\ UNCHANGED <<cfgVars, outVars, df, prev, kept>>

\* parse, lines 22-24: the frame of the points; an empty one is returned.
MakeFrame ==
    /\ pc = "collect"
    /\ n = Len(doc)
    /\ df' = points
    /\ pc' = IF points = <<>> THEN "parsed" ELSE "dropna"
    /\ UNCHANGED <<cfgVars, outVars, n, points, prev, kept, extracted, exc>>

\* parse, lines 26-27
DropNa ==
    /\ pc = "dropna"
    /\ prev' = df
    /\ df' = dropna(df)
    /\ pc' = "sort"
    /\ UNCHANGED <<cfgVars, outVars, n, points, kept, extracted, exc>>

\* parse, line 28
SortValues ==
    /\ pc = "sort"
    /\ prev' = df
    /\ df' \in sort_values(df)
    /\ pc' = "filter"
    /\ UNCHANGED <<cfgVars, outVars, n, points, kept, extracted, exc>>

\* parse, lines 30-31
AccuracyFilter ==
    /\ pc = "filter"
    /\ prev' = df
    /\ df' = IF IsNone(max_accuracy) THEN df
             ELSE FilterAccuracy(df, max_accuracy)
    /\ pc' = "dedup"
    /\ UNCHANGED <<cfgVars, outVars, n, points, kept, extracted, exc>>

\* parse, lines 33-34
Deduplicate ==
    /\ pc = "dedup"
    /\ prev' = df
    /\ kept' = DedupKept(df, dedup_tolerance_m)
    /\ df' = _deduplicate(df, dedup_tolerance_m)
    /\ pc' = "parsed"
    /\ UNCHANGED <<cfgVars, outVars, n, points, extracted, exc>>

ParseNext ==
    \/ LoadJson
    \/ CollectEntry
    \/ MakeFrame
    \/ DropNa
    \/ SortValues
    \/ AccuracyFilter
    \/ Deduplicate

\* TimelineParser(max_accuracy).parse(path) on every document.
ParseInit ==
    /\ pc = "load"
    /\ input_exists \in BOOLEAN
    /\ doc \in (IF input_exists THEN Docs ELSE {<<>>})
    /\ max_accuracy \in {None, Some(F(10))}
    /\ dedup_tolerance_m = F(DEFAULT_TOLERANCE)
    /\ resample_freq = None
    /\ smoothing_window = 1
    /\ n = 0
    /\ points = <<>>
    /\ df = <<>>
    /\ prev = <<>>
    /\ kept = <<>>
    /\ extracted = <<>>
    /\ stages = <<>>
    /\ frames = 0
    /\ video = FALSE
    /\ parsed = <<>>
    /\ built_from = <<>>
    /\ exc = "none"

SpecParse == ParseInit /\ [][ParseNext]_vars


(***************************************************************************)
(* Properties of TimelineParser.parse (SpecParse).                         *)
(***************************************************************************)
\* C2, as claimed: the table parse returns is strictly ascending by
\* timestamp, no two rows share an instant.
C2_StrictlyAscending ==
    pc = "parsed" =>
        \A k \in 1..(Len(df) - 1) :
            Val(df[k].timestamp) < Val(df[k + 1].timestamp)

\* C3: with max_accuracy set, the rows that survive the accuracy filter are
\* exactly those whose accuracy is unknown or at most max_accuracy, in their
\* order; with max_accuracy unset the filter drops nothing.
C3_Survives(row) ==
    \/ IsNone(max_accuracy)
    \/ IsNone(row.accuracy)
    \/ Val(row.accuracy) <= Val(max_accuracy)

C3_AccuracyFilter ==
    pc = "dedup" => df = SelectSeq(prev, C3_Survives)

C3_Witness ==
    /\ pc = "dedup"
    /\ max_accuracy = Some(F(10))
    /\ \E a, b, c \in 1..Len(prev) :
          /\ prev[a].accuracy = None
          /\ prev[b].accuracy = Some(F(5))
          /\ prev[c].accuracy = Some(F(20))
    /\ Len(df) = 2
    /\ \E a, b \in 1..Len(df) :
          df[a].accuracy = None /\ df[b].accuracy = Some(F(5))

\* C4, as claimed: on a document of well-formed records and of records that
\* are malformed in the ways listed (unparseable timestamp, missing
\* coordinates, non-numeric accuracy or speed, an entry that is not a map),
\* parse never raises, and the points it collects include every point of the
\* well-formed records.
RECURSIVE C4_WellFormedPoints(_)
C4_WellFormedPoints(entries) ==
    IF entries = <<>> THEN <<>>
    ELSE (IF Head(entries) \in WellFormedPool
          THEN _extract_from_entry(Head(entries)).points ELSE <<>>)
         \o C4_WellFormedPoints(Tail(entries))

C4_NeverAborts ==
    (\A k \in 1..Len(doc) : doc[k] \in WellFormedPool \cup MalformedPool) =>
        /\ exc \notin {"ValueError", "AttributeError"}
        /\ pc \in {"dropna", "sort", "filter", "dedup", "parsed"} =>
              LET want == C4_WellFormedPoints(doc)
              IN  \A k \in 1..Len(want) :
                     \E m \in 1..Len(points) : points[m] = want[k]

\* C9, as claimed: a timeline object whose only content is an activity
\* segment yields two candidate points, the start location stamped with the
\* segment's start time and the end location stamped with its end time.
C9_SegmentYieldsTwoPoints ==
    \A k \in 1..Len(extracted) :
        (doc[k].hasSegment /\ doc[k] \in SegmentOnlyPool) =>
            LET seg == doc[k].segment
                got == extracted[k].points
            IN  /\ Len(got) = 2
                /\ got[1].timestamp = TsOpt(to_timestamp(seg.durationStart))
                /\ got[1].latitude = Some(DecodeE7(seg.startLocation[1].lat.v))
                /\ got[1].longitude = Some(DecodeE7(seg.startLocation[1].lng.v))
                /\ got[2].timestamp = TsOpt(to_timestamp(seg.durationEnd))
                /\ got[2].latitude = Some(DecodeE7(seg.endLocation[1].lat.v))
                /\ got[2].longitude = Some(DecodeE7(seg.endLocation[1].lng.v))

\* C10, as claimed: an entry's timestamp is the first of timestamp,
\* timestampMs, eventTime and the segment start-time field that resolves to
\* a valid instant, an earlier field that is present but unparseable not
\* standing in the way; an entry for which none resolves contributes no
\* points.
RECURSIVE C10_FirstValid(_)
C10_FirstValid(raws) ==
    IF raws = <<>> THEN NoTs
    ELSE IF to_timestamp(Head(raws)).k = "ts" THEN to_timestamp(Head(raws))
         ELSE C10_FirstValid(Tail(raws))

C10_Claimed(entry) ==
    C10_FirstValid(<<entry.timestamp, entry.timestampMs, entry.eventTime,
                     entry.startTimestamp, entry.startTimestampMs>>)

C10_FirstResolvingFieldWins ==
    \A k \in 1..Len(extracted) :
        (doc[k].isDict /\ ~doc[k].hasSegment) =>
            IF C10_Claimed(doc[k]).k = "ts"
            THEN extracted[k].ts = C10_Claimed(doc[k])
            ELSE \A m \in 1..Len(extracted[k].points) :
                     ~DropNaKeeps(extracted[k].points[m])


(***************************************************************************)
(* TimelineParser._deduplicate on every time-sorted table (SpecDedup).     *)
(***************************************************************************)
DedupTimes == {1, 2}

DedupRows ==
    {Row(Some(t), Some(lat), Some(lon), None, None) :
        t \in DedupTimes, lat \in GridLat, lon \in GridLon}

DedupInputs ==
    {table \in UNION {[1..k -> DedupRows] : k \in 0..MaxPoints} :
        \A k \in 1..(Len(table) - 1) :
            Val(table[k].timestamp) <= Val(table[k + 1].timestamp)}

DedupInit ==
    /\ pc = "dedup"
    /\ input_exists = TRUE
    /\ doc = <<>>
    /\ max_accuracy = None
    /\ dedup_tolerance_m \in Tolerances
    /\ resample_freq = None
    /\ smoothing_window = 1
    /\ n = 0
    /\ points = <<>>
    /\ df \in DedupInputs
    /\ prev = <<>>
    /\ kept = <<>>
    /\ extracted = <<>>
    /\ stages = <<>>
    /\ frames = 0
    /\ video = FALSE
    /\ parsed = <<>>
    /\ built_from = <<>>
    /\ exc = "none"

DedupNext == Deduplicate

SpecDedup == DedupInit /\ [][DedupNext]_vars

KeptSet == {kept[k] : k \in 1..Len(kept)}

\* The last kept row before row j.
LastKept(j) == CHOOSE k \in KeptSet : k < j /\ \A m \in KeptSet : m < j => m <= k

DistSqRows(a, b) ==
    DistSq(Val(a.latitude), Val(a.longitude), Val(b.latitude), Val(b.longitude))

DedupResultIsKeptRows ==
    /\ \A k \in 1..(Len(kept) - 1) : kept[k] < kept[k + 1]
    /\ KeptSet \subseteq 1..Len(prev)
    /\ df = [k \in 1..Len(kept) |-> prev[kept[k]]]
    /\ prev # <<>> => 1 \in KeptSet

\* C1, as claimed: the first point is kept, and each later point is kept if
\* and only if its distance from the last kept point is strictly greater
\* than the tolerance (a distance equal to the tolerance drops the point).
C1_KeptIffExceeds ==
    pc = "parsed" =>
        /\ DedupResultIsKeptRows
        /\ \A j \in 2..Len(prev) :
              j \in KeptSet <=>
                  DistSqRows(prev[LastKept(j)], prev[j])
                      > dedup_tolerance_m * dedup_tolerance_m

\* C1, amended: the first point is kept, and each later point is kept if and
\* only if its distance from the last kept point is at least the tolerance
\* (it is dropped only when the distance is strictly less than it).
C1_KeptIffNotBelow ==
    pc = "parsed" =>
        /\ DedupResultIsKeptRows
        /\ \A j \in 2..Len(prev) :
              j \in KeptSet <=>
                  DistSqRows(prev[LastKept(j)], prev[j])
                      >= dedup_tolerance_m * dedup_tolerance_m

\* A row dropped, then a row kept at exactly the tolerance from the last kept
\* row although it is nearer than the tolerance to the row before it.
C1_Witness ==
    /\ pc = "parsed"
    /\ Len(prev) >= 3
    /\ \E j \in 3..Len(prev) :
          /\ j \in KeptSet
          /\ (j - 1) \notin KeptSet
          /\ DistSqRows(prev[LastKept(j)], prev[j])
                = dedup_tolerance_m * dedup_tolerance_m
          /\ DistSqRows(prev[j - 1], prev[j])
                < dedup_tolerance_m * dedup_tolerance_m


(***************************************************************************)
(* trajectory.py                                                           *)
(***************************************************************************)
BuilderRaisesNever(table) == FALSE

\* TrajectoryBuilder.__init__, lines 22-23: ValueError on an empty frame.
BuilderRaises(table) == table = <<>>

HasDuplicateTimes(table) ==
    \E j, k \in 1..Len(table) : j # k /\ table[j].timestamp = table[k].timestamp

\* The greatest multiple of freq at or before t, counted from midnight
\* (resample's origin "start_day").
GridFloor(t, freq) == t - (t % freq)

GridFirstAtFirstPoint(table, freq) == Val(table[1].timestamp)

\* The label of the first bin.
GridFirst(table, freq) == GridFloor(Val(table[1].timestamp), freq)

\* The labels of the bins (closed and labelled on the left), from the bin of
\* the first row to the bin of the last row of the sorted table.
GridLabels(table, freq) ==
    LET first == GridFirst(table, freq)
        last == GridFloor(Val(table[Len(table)].timestamp), freq)
        count == IF last < first THEN 0 ELSE ((last - first) \div freq) + 1
    IN  [k \in 1..count |-> first + (k - 1) * freq]

\* Upsampling takes a shortcut when the index already has the frequency
\* asked for (inferred_freq needs three or more rows, one freq apart): the
\* rows are kept and only relabelled.
EquallySpaced(table, freq) ==
    /\ Len(table) >= 3
    /\ \A k \in 1..(Len(table) - 1) :
          Val(table[k + 1].timestamp) - Val(table[k].timestamp) = freq

EmptyRow(t) == Row(Some(t), None, None, None, None)

FfillSourceFirstInBin(table, g, freq) ==
    {k \in 1..Len(table) :
        /\ Val(table[k].timestamp) >= g
        /\ Val(table[k].timestamp) < g + freq
        /\ \A j \in 1..Len(table) : Val(table[j].timestamp) >= g => j >= k}

\* reindex(labels, method="ffill"): the rows at or before label g that no
\* later row at or before g follows (one row at most, or none).
FfillSource(table, g, freq) ==
    {k \in 1..Len(table) :
        /\ Val(table[k].timestamp) <= g
        /\ \A j \in 1..Len(table) : Val(table[j].timestamp) <= g => j <= k}

FfillRow(table, g, freq) ==
    LET src == FfillSource(table, g, freq)
    IN  IF src = {} THEN EmptyRow(g)
        ELSE [table[CHOOSE k \in src : TRUE] EXCEPT !.timestamp = Some(g)]

\* reindex raises ValueError on an index with duplicate labels.
ResampleRaises(table, freq) == HasDuplicateTimes(table)

\* TrajectoryBuilder.resample:
\* df.set_index("timestamp").resample(freq).ffill().reset_index()
resample(table, freq) ==
    IF table = <<>> THEN <<>>
    ELSE LET labels == GridLabels(table, freq)
         IN  IF EquallySpaced(table, freq)
             THEN [k \in 1..Len(table) |->
                      [table[k] EXCEPT !.timestamp = Some(labels[k])]]
             ELSE [k \in 1..Len(labels) |-> FfillRow(table, labels[k], freq)]

RECURSIVE SumOver(_, _)
SumOver(col, idx) ==
    IF idx = {} THEN 0
    ELSE LET k == CHOOSE j \in idx : TRUE
         IN  Val(col[k]) + SumOver(col, idx \ {k})

RollingWindowCentered(k, window, len) ==
    {j \in 1..len : j >= k - (window \div 2) /\ j <= k - (window \div 2) + window - 1}

\* rolling(window): the window of row k ends at row k.
RollingWindow(k, window, len) == {j \in 1..len : j >= k - window + 1 /\ j <= k}

\* rolling(window, min_periods=1).mean() at row k: the mean of the values
\* of the window that are not NaN, NaN when there is none.
RollingMean(col, k, window) ==
    LET idx == {j \in RollingWindow(k, window, Len(col)) : ~IsNone(col[j])}
    IN  IF idx = {} THEN None
        ELSE Some(SumOver(col, idx) \div Cardinality(idx))

\* TrajectoryBuilder.smooth
smooth(table, window) ==
    IF window <= 1 THEN table
    ELSE LET lats == [k \in 1..Len(table) |-> table[k].latitude]
             lons == [k \in 1..Len(table) |-> table[k].longitude]
         IN  [k \in 1..Len(table) |->
                [table[k] EXCEPT !.latitude = RollingMean(lats, k, window),
                                 !.longitude = RollingMean(lons, k, window)]]

parseVars == <<n, points, kept, extracted>>

\* build_trajectory, line 54: TrajectoryBuilder(df)
BuilderInit ==
    /\ pc = "build"
    /\ built_from' = <<df>>
    /\ IF BuilderRaises(df)
       THEN /\ pc' = "raised"
            /\ exc' = "ValueError"
            /\ UNCHANGED <<df, prev>>
       ELSE /\ prev' = df
            /\ df' \in sort_values(df)
            /\ pc' = "resample"
            /\ exc' = exc
    /\ UNCHANGED <<cfgVars, parseVars, stages, frames, video, parsed>>

\* build_trajectory, lines 55-56
Resample ==
    /\ pc = "resample"
    /\ IF IsNone(resample_freq)
       THEN /\ pc' = "smooth"
            /\ UNCHANGED <<df, prev, exc>>
       ELSE IF ResampleRaises(df, Val(resample_freq))
            THEN /\ pc' = "raised"
                 /\ exc' = "ValueError"
                 /\ UNCHANGED <<df, prev>>
            ELSE /\ prev' = df
                 /\ df' = resample(df, Val(resample_freq))
                 /\ pc' = "smooth"
                 /\ exc' = exc
    /\ UNCHANGED <<cfgVars, parseVars, outVars>>

\* build_trajectory, lines 57-58
Smooth ==
    /\ pc = "smooth"
    /\ prev' = df
    /\ df' = smooth(df, smoothing_window)
    /\ pc' = "built"
    /\ UNCHANGED <<cfgVars, parseVars, outVars, exc>>

BuildNext ==
    \/ BuilderInit
    \/ Resample
    \/ Smooth

TrajKinds ==
    { [latitude |-> Some(F(0)), longitude |-> Some(F(0)),
       accuracy |-> None, speed |-> None],
      [latitude |-> Some(F(6)), longitude |-> Some(F(8)),
       accuracy |-> Some(F(5)), speed |-> Some(F(1))] }

TrajRows ==
    {Row(Some(t), kind.latitude, kind.longitude, kind.accuracy, kind.speed) :
        t \in 0..MaxTime, kind \in TrajKinds}

TrajInputs ==
    {table \in UNION {[1..k -> TrajRows] : k \in 0..MaxRows} :
        \A k \in 1..(Len(table) - 1) :
            Val(table[k].timestamp) <= Val(table[k + 1].timestamp)}

ResampleFreqs == {2}

\* build_trajectory(df, resample_freq, smoothing_window) on every table.
TrajInit ==
    /\ pc = "build"
    /\ input_exists = TRUE
    /\ doc = <<>>
    /\ max_accuracy = None
    /\ dedup_tolerance_m = F(DEFAULT_TOLERANCE)
    /\ resample_freq \in {None} \cup {Some(f) : f \in ResampleFreqs}
    /\ smoothing_window \in 1..MaxWindow
    /\ n = 0
    /\ points = <<>>
    /\ df \in TrajInputs
    /\ prev = <<>>
    /\ kept = <<>>
    /\ extracted = <<>>
    /\ stages = <<>>
    /\ frames = 0
    /\ video = FALSE
    /\ parsed = <<>>
    /\ built_from = <<>>
    /\ exc = "none"

SpecTraj == TrajInit /\ [][BuildNext]_vars


(***************************************************************************)
(* Properties of build_trajectory (SpecTraj).                              *)
(***************************************************************************)
\* C5, as claimed: build_trajectory given an empty table returns an empty
\* table and raises nothing, whatever the resample and smoothing settings.
C5_EmptyInputReturnsEmpty ==
    built_from = <<<<>>>> =>
        /\ exc = "none"
        /\ pc \in {"resample", "smooth", "built"}
        /\ df = <<>>

\* C5, amended: build_trajectory given an empty table raises ValueError (in
\* the constructor of TrajectoryBuilder) and returns no table, whatever the
\* resample and smoothing settings.
C5_EmptyInputRaises ==
    built_from = <<<<>>>> => (pc = "raised" /\ exc = "ValueError")

C5_Witness ==
    /\ built_from = <<<<>>>>
    /\ pc = "raised"
    /\ ~IsNone(resample_freq)
    /\ smoothing_window > 1

Resampled == pc = "smooth" /\ ~IsNone(resample_freq)

SameValues(a, b) ==
    /\ a.latitude = b.latitude
    /\ a.longitude = b.longitude
    /\ a.accuracy = b.accuracy
    /\ a.speed = b.speed

IsEmptyRow(a) ==
    /\ IsNone(a.latitude)
    /\ IsNone(a.longitude)
    /\ IsNone(a.accuracy)
    /\ IsNone(a.speed)

\* The rows of table whose timestamp lies in [g, g + freq).
InBucket(table, g, freq) ==
    {k \in 1..Len(table) :
        Val(table[k].timestamp) >= g /\ Val(table[k].timestamp) < g + freq}

\* The rows of table whose timestamp is at or before g.
AtOrBefore(table, g) == {k \in 1..Len(table) : Val(table[k].timestamp) <= g}

Least(idx) == CHOOSE k \in idx : \A j \in idx : k <= j
Greatest(idx) == CHOOSE k \in idx : \A j \in idx : j <= k

ConsecutiveLabels(freq) ==
    \A k \in 1..(Len(df) - 1) :
        Val(df[k + 1].timestamp) = Val(df[k].timestamp) + freq

\* C6, as claimed: the buckets are consecutive, of the width asked for, the
\* first starting at the first input point's timestamp; each output row
\* carries the first sample of its bucket, and a bucket without a sample is
\* left empty.
C6_FirstSampleOfBucket ==
    Resampled =>
        LET freq == Val(resample_freq)
        IN  /\ Len(df) >= 1
            /\ df[1].timestamp = prev[1].timestamp
            /\ ConsecutiveLabels(freq)
            /\ \A k \in 1..Len(df) :
                  LET inb == InBucket(prev, Val(df[k].timestamp), freq)
                  IN  IF inb = {} THEN IsEmptyRow(df[k])
                      ELSE SameValues(df[k], prev[Least(inb)])

\* C6, amended: resampling (a forward fill) re-grids the series onto
\* consecutive grid instants one width apart that are multiples of the width
\* counted from midnight, from the last one at or before the first input
\* point to the last one at or before the last input point.  Each output row
\* carries the values of the latest sample at or before its grid instant,
\* and is empty only when there is none; a bucket without a sample is thus
\* filled from the earlier sample.  Only when the input is three or more
\* samples exactly one width apart does each row carry the sample of its own
\* bucket.  Input with a repeated timestamp makes resample raise ValueError.
C6_ForwardFill ==
    /\ Resampled =>
        LET freq == Val(resample_freq)
            tmin == Val(prev[1].timestamp)
            tmax == Val(prev[Len(prev)].timestamp)
            regular == Len(prev) >= 3 /\ \A k \in 1..(Len(prev) - 1) :
                          Val(prev[k + 1].timestamp)
                              = Val(prev[k].timestamp) + freq
        IN  /\ Len(df) >= 1
            /\ ConsecutiveLabels(freq)
            /\ Val(df[1].timestamp) % freq = 0
            /\ Val(df[1].timestamp) <= tmin
            /\ tmin < Val(df[1].timestamp) + freq
            /\ Val(df[Len(df)].timestamp) <= tmax
            /\ tmax < Val(df[Len(df)].timestamp) + freq
            /\ \A k \in 1..Len(df) :
                  LET g == Val(df[k].timestamp)
                  IN  IF regular
                      THEN /\ InBucket(prev, g, freq) = {k}
                           /\ SameValues(df[k], prev[k])
                      ELSE IF AtOrBefore(prev, g) = {} THEN IsEmptyRow(df[k])
                           ELSE SameValues(df[k], prev[Greatest(AtOrBefore(prev, g))])
    /\ Resampled => ~HasDuplicateTimes(prev)
    /\ (pc = "raised" /\ built_from # <<>> /\ built_from # <<<<>>>>) =>
          (exc = "ValueError" /\ ~IsNone(resample_freq) /\ HasDuplicateTimes(df))

\* A bucket with a sample of its own that carries an earlier bucket's
\* sample, after a first row left empty.
C6_Witness ==
    /\ Resampled
    /\ Len(df) >= 3
    /\ IsEmptyRow(df[1])
    /\ \E k \in 2..Len(df) :
          LET g == Val(df[k].timestamp)
              inb == InBucket(prev, g, Val(resample_freq))
          IN  /\ inb # {}
              /\ ~SameValues(df[k], prev[Least(inb)])
              /\ SameValues(df[k], prev[Greatest(AtOrBefore(prev, g))])
    /\ \E k \in 2..Len(df) :
          /\ InBucket(prev, Val(df[k].timestamp), Val(resample_freq)) = {}
          /\ ~IsEmptyRow(df[k])

Smoothed == pc = "built" /\ smoothing_window > 1

SmoothKeepsTheRest ==
    /\ Len(df) = Len(prev)
    /\ \A k \in 1..Len(df) :
          /\ df[k].timestamp = prev[k].timestamp
          /\ df[k].accuracy = prev[k].accuracy
          /\ df[k].speed = prev[k].speed

\* value = the mean of col over the rows idx that hold a value.
IsMeanOf(value, col, idx) ==
    LET have == {j \in idx : ~IsNone(col[j])}
    IN  IF have = {} THEN IsNone(value)
        ELSE /\ ~IsNone(value)
             /\ Val(value) * Cardinality(have) = SumOver(col, have)

PrevLat == [k \in 1..Len(prev) |-> prev[k].latitude]
PrevLon == [k \in 1..Len(prev) |-> prev[k].longitude]

\* C7, as claimed: smoothing with window w > 1 keeps the row count, the
\* order, the timestamps, accuracy and speed, and replaces latitude and
\* longitude with a centered moving average: for window 3 the value at an
\* interior index i is the mean of the originals at i-1, i and i+1, and at
\* the edges the mean of the samples available.
C7_CenteredAverage ==
    (Smoothed /\ smoothing_window = 3) =>
        /\ SmoothKeepsTheRest
        /\ \A k \in 1..Len(df) :
              LET idx == {j \in 1..Len(prev) : j >= k - 1 /\ j <= k + 1}
              IN  /\ IsMeanOf(df[k].latitude, PrevLat, idx)
                  /\ IsMeanOf(df[k].longitude, PrevLon, idx)

\* C7, amended: smoothing with window w > 1 keeps the row count, the order,
\* the timestamps, accuracy and speed, and replaces latitude and longitude
\* with a TRAILING moving average: the value at index i is the mean of the
\* original values at i-w+1 .. i that exist and are not empty (for window 3,
\* at i >= 3, of the originals at i-2, i-1 and i; at the start of the
\* sequence, of the samples available).
C7_TrailingAverage ==
    Smoothed =>
        /\ SmoothKeepsTheRest
        /\ \A k \in 1..Len(df) :
              LET idx == {j \in 1..Len(prev) :
                             j >= k - smoothing_window + 1 /\ j <= k}
              IN  /\ IsMeanOf(df[k].latitude, PrevLat, idx)
                  /\ IsMeanOf(df[k].longitude, PrevLon, idx)

\* Window 3 over three values whose centered and trailing means differ at
\* the interior index.
C7_Witness ==
    /\ Smoothed
    /\ smoothing_window = 3
    /\ Len(df) = 3
    /\ \A k \in 1..3 : ~IsNone(prev[k].latitude)
    /\ Val(df[3].latitude) * 3
          = Val(prev[1].latitude) + Val(prev[2].latitude) + Val(prev[3].latitude)
    /\ Val(df[2].latitude) * 3
          # Val(prev[1].latitude) + Val(prev[2].latitude) + Val(prev[3].latitude)
    /\ Val(df[2].latitude) # Val(prev[2].latitude)


(***************************************************************************)
(* cli.py: main.                                                           *)
(***************************************************************************)
\* parser.parse_timeline, which main imports: the parser it builds has the
\* default options.
parse_timeline ==
    [max_accuracy |-> None, dedup_tolerance_m |-> F(DEFAULT_TOLERANCE)]

EmptyAbortsNever(table) == FALSE

\* main, line 81: parsed.empty
EmptyAborts(table) == table = <<>>

\* main, lines 67-80: the input must exist, the output directories are
\* made, and parse_timeline is called.
Main ==
    /\ pc = "main"
    /\ IF input_exists
       THEN /\ pc' = "load"
            /\ stages' = Append(stages, "parse")
            /\ exc' = exc
       ELSE /\ pc' = "raised"
            /\ exc' = "FileNotFoundError"
            /\ stages' = stages
    /\ UNCHANGED <<cfgVars, parseVars, df, prev, frames, video, parsed,
                   built_from>>

\* main, lines 80-86: an empty table ends the run; otherwise
\* build_trajectory is called.
CheckParsed ==
    /\ pc = "parsed"
    /\ parsed' = <<df>>
    /\ IF EmptyAborts(df)
       THEN pc' = "done" /\ stages' = stages
       ELSE pc' = "build" /\ stages' = Append(stages, "build")
    /\ UNCHANGED <<cfgVars, parseVars, df, prev, frames, video, built_from,
                   exc>>

\* main, lines 88-96: MapRenderer raises ValueError on an empty table;
\* render_frames writes one frame per row.
RenderFrames ==
    /\ pc = "built"
    /\ stages' = Append(stages, "render")
    /\ IF df = <<>>
       THEN pc' = "raised" /\ exc' = "ValueError" /\ frames' = frames
       ELSE pc' = "rendered" /\ exc' = exc /\ frames' = Len(df)
    /\ UNCHANGED <<cfgVars, parseVars, df, prev, video, parsed, built_from>>

\* main, lines 98-99: render_video writes the video file.
RenderVideo ==
    /\ pc = "rendered"
    /\ stages' = Append(stages, "video")
    /\ video' = TRUE
    /\ pc' = "done"
    /\ UNCHANGED <<cfgVars, parseVars, df, prev, frames, parsed, built_from,
                   exc>>

Next ==
    \/ Main
    \/ LoadJson
    \/ CollectEntry
    \/ MakeFrame
    \/ DropNa
    \/ SortValues
    \/ AccuracyFilter
    \/ Deduplicate
    \/ CheckParsed
    \/ BuilderInit
    \/ Resample
    \/ Smooth
    \/ RenderFrames
    \/ RenderVideo

CliPool ==
    { [Flat(LocA, Absent) EXCEPT !.timestamp = Num(1)],
      [Flat(LocB, Num(5)) EXCEPT !.timestamp = Iso(2)],
      [Flat(LocA, Num(20)) EXCEPT !.timestamp = Num(2)],
      [Flat(LocC, Num(10)) EXCEPT !.timestamp = Iso(4)],
      [Flat(LocB, Absent) EXCEPT !.eventTime = Iso(3)],
      [Flat(LocA, Absent) EXCEPT !.timestamp = BadStr],
      [Entry0 EXCEPT !.hasSegment = TRUE, !.segment = Segment(Iso(1), Iso(4))],
      [Flat(LocB, BadStr) EXCEPT !.timestamp = Num(2)] }

\* main is run on documents one entry longer than parse alone.
CliDocs == UNION {[1..k -> CliPool] : k \in 0..(MaxEntries + 1)}

\* A run of main on every document and every --resample / --smooth-window.
Init ==
    /\ pc = "main"
    /\ input_exists \in BOOLEAN
    /\ doc \in (IF input_exists THEN CliDocs ELSE {<<>>})
    /\ max_accuracy = parse_timeline.max_accuracy
    /\ dedup_tolerance_m = parse_timeline.dedup_tolerance_m
    /\ resample_freq \in {None} \cup {Some(f) : f \in ResampleFreqs}
    /\ smoothing_window \in 1..MaxWindow
    /\ n = 0
    /\ points = <<>>
    /\ df = <<>>
    /\ prev = <<>>
    /\ kept = <<>>
    /\ extracted = <<>>
    /\ stages = <<>>
    /\ frames = 0
    /\ video = FALSE
    /\ parsed = <<>>
    /\ built_from = <<>>
    /\ exc = "none"

Spec == Init /\ [][Next]_vars

IsPrefix(a, b) == Len(a) <= Len(b) /\ \A k \in 1..Len(a) : a[k] = b[k]

Invoked(stage) == \E k \in 1..Len(stages) : stages[k] = stage

====
